---- MODULE Spec2Model ----
(***************************************************************************)
(* Model of the Pine Forge generation session: the Generator page's state, *)
(* its two handlers (handleSubmitPrompt, handleSubmitFeedback), the         *)
(* activity-polling effect, the ChatInput and FeedbackForm components that  *)
(* drive the handlers, and the axios transport whose calls are in flight    *)
(* between a request and its response.                                      *)
(*                                                                          *)
(* Optional values (T | null | undefined) are sequences of length <= 1:     *)
(* None is <<>>, Some(x) is <<x>>.  Text is a TLA+ string.                   *)
(***************************************************************************)
EXTENDS Integers, Sequences, FiniteSets, TLC

\* ---- bounds of the model ----
\* generate calls issued + feedback calls issued + activity fetches in
\* flight + advances of the clock, in one behaviour
MaxEvents == 4

None == <<>>
Some(x) == <<x>>

\* JavaScript truthiness of an optional string: set and not ''.
Truthy(opt) == opt # None /\ opt[1] # ""

\* ---- input domains ----
\* what the chat textarea / the feedback textarea may hold on submit
Inputs == {" ", "rsi "}
\* String.prototype.trim on the texts of Inputs
trim(s) == CASE s = " " -> ""
             [] s = "rsi " -> "rsi"
             [] OTHER -> s

\* API keys the settings page may persist
ApiKeys == {"", "nvapi-1"}

\* positions of the temperature slider (type="range", min 0.1, max 1.0,
\* step 0.1), in tenths
SliderTenths == {1, 6, 10}

\* what the Max Correction Attempts field may hold when it changes: a
\* type="number" input takes any typed number, its min and max only mark
\* the field invalid
AttemptTexts == {"", "0", "5", "16"}

\* parseInt on the texts of AttemptTexts, as JSON.stringify then stores it:
\* parseInt('') is NaN, stored as null
parseInt(text) == CASE text = "0" -> Some(0)
                    [] text = "5" -> Some(5)
                    [] text = "16" -> Some(16)
                    [] OTHER -> None

\* Settings.handleSave: the record written to localStorage after the three
\* controls were set
handleSave(key, tenths, attemptsText) ==
  [apiKey |-> key, temperature |-> Some(tenths),
   maxAttempts |-> parseInt(attemptsText)]

\* records saved with the parameters left at their initial 0.6 and 5
SavedWithDefaults == {handleSave(key, 6, "5") : key \in ApiKeys}

\* records saved after one of the two parameters was changed as well
PersistableSettings ==
  SavedWithDefaults
  \cup {handleSave(key, tenths, "5") : key \in ApiKeys, tenths \in SliderTenths}
  \cup {handleSave(key, 6, text) : key \in ApiKeys, text \in AttemptTexts}

\* value || fallback on a stored number: null and 0 are falsy
orDefault(opt, fallback) ==
  IF opt = None \/ opt[1] = 0 THEN fallback ELSE opt[1]

\* activity snapshots the service may return
Snapshots == {<<>>, <<"a1">>}

\* bodies POST /generate may answer with (response.data)
GenResults ==
  { [success |-> TRUE,  code |-> Some("strategy()"), error |-> None,
     activities |-> None],
    [success |-> TRUE,  code |-> Some("strategy()"), error |-> None,
     activities |-> Some(<<"a1", "a2">>)],
    [success |-> FALSE, code |-> None, error |-> Some("syntax error"),
     activities |-> None],
    [success |-> FALSE, code |-> None, error |-> Some("syntax error"),
     activities |-> Some(<<"a1", "a2">>)],
    [success |-> FALSE, code |-> None, error |-> None,
     activities |-> Some(<<>>)],
    [success |-> TRUE,  code |-> None, error |-> None,
     activities |-> None],
    [success |-> TRUE,  code |-> Some(""), error |-> Some("syntax error"),
     activities |-> None] }

\* values a transport promise may reject with
\* axios rejects with an Error: a network failure, a non-2xx status, or
\* its timeout (which differ in the message only)
Rejections == { [isError |-> TRUE, message |-> "Network Error"] }

NoResult == [success |-> FALSE, code |-> None, error |-> None,
             activities |-> None]
NoRejection == [isError |-> FALSE, message |-> ""]

VARIABLES
  settings,              \* localStorage 'pineForgeSettings'
  messages,              \* Generator state
  loading,
  lastGenerationResult,
  feedbackSubmitted,
  error,
  activities,
  activityPollingRef,    \* id of the interval last created, None before
  intervals,             \* ids of the intervals that are scheduled
  showDetailForm,        \* FeedbackForm state
  genCalls,              \* generateScript calls awaiting their response
  genIssued,             \* number of generateScript calls issued
  pollsInFlight,         \* per interval id: getActivities calls in flight
  fbCalls,               \* submitFeedback calls awaiting their response
  fbIssued,              \* number of submitFeedback calls issued
  now,                   \* Date.now()
  last                   \* the event that led to the current state

vars == <<settings, messages, loading, lastGenerationResult,
          feedbackSubmitted, error, activities, activityPollingRef,
          intervals, showDetailForm, genCalls, genIssued, pollsInFlight,
          fbCalls, fbIssued, now, last>>

\* Generator reads the key on every render:
\* localStorage.getItem('pineForgeSettings') ? JSON.parse(...).apiKey : ''
apiKey == settings.apiKey

\* the Generator's React state
genState == <<messages, loading, lastGenerationResult, feedbackSubmitted,
              error, activities>>
transport == <<genCalls, genIssued, pollsInFlight, fbCalls, fbIssued>>
poller == <<activityPollingRef, intervals>>

\* ---- calls in flight ----
RECURSIVE SumUpTo(_, _)
SumUpTo(f, k) == IF k = 0 THEN 0 ELSE f[k] + SumUpTo(f, k - 1)

\* getActivities calls in flight, over all intervals
InFlightTotal == SumUpTo(pollsInFlight, MaxEvents)

\* what a behaviour has used of MaxEvents
Events == genIssued + fbIssued + InFlightTotal + now

\* ---- messages ----
Msg(prefix, role, tpl, arg, isLoading) ==
  [id |-> [prefix |-> prefix, t |-> now], role |-> role,
   content |-> [tpl |-> tpl, arg |-> arg], loading |-> isLoading]

ConfigErrorMsg == "Please add your API key in Settings to start."

\* variant: a filter that matches no turn
filterOut_none(msgs, id) == msgs

\* prev.filter((m) => m.id !== id)
RECURSIVE filterOut(_, _)
filterOut(msgs, id) ==
  IF msgs = <<>> THEN <<>>
  ELSE IF Head(msgs).id = id THEN filterOut(Tail(msgs), id)
       ELSE <<Head(msgs)>> \o filterOut(Tail(msgs), id)

\* ---- rendering ----
\* <FeedbackForm> is mounted iff lastGenerationResult && !feedbackSubmitted
FormShown(res, fb) == res # None /\ ~fb

\* FeedbackForm state survives only while the form stays mounted
FormStateAfter(res, fb, sdf) ==
  IF FormShown(lastGenerationResult, feedbackSubmitted) /\ FormShown(res, fb)
  THEN sdf ELSE FALSE

\* variant: an effect whose cleanup does not clear the interval
PollingEffect_noCleanup(newLoading) ==
  IF newLoading = loading
  THEN UNCHANGED poller
  ELSE IF newLoading
       THEN /\ intervals' = intervals \cup {genIssued + 1}
            /\ activityPollingRef' = Some(genIssued + 1)
       ELSE UNCHANGED poller

\* ---- the activity-polling effect, useEffect(..., [loading]) ----
\* runs when loading changed: the cleanup of the previous run clears the
\* interval held by activityPollingRef, then a new interval is created if
\* loading is now true.
PollingEffect(newLoading) ==
  IF newLoading = loading
  THEN UNCHANGED poller
  ELSE LET cleaned == IF loading /\ activityPollingRef # None
                      THEN intervals \ {activityPollingRef[1]}
                      ELSE intervals
       IN IF newLoading
          THEN /\ intervals' = cleaned \cup {genIssued + 1}
               /\ activityPollingRef' = Some(genIssued + 1)
          ELSE /\ intervals' = cleaned
               /\ UNCHANGED activityPollingRef

\* the Generator as mounted
InitSession ==
  /\ messages = <<>>
  /\ loading = FALSE
  /\ lastGenerationResult = None
  /\ feedbackSubmitted = FALSE
  /\ error = None
  /\ activities = <<>>
  /\ activityPollingRef = None
  /\ intervals = {}
  /\ showDetailForm = FALSE
  /\ genCalls = {}
  /\ genIssued = 0
  /\ pollsInFlight = [i \in 1..MaxEvents |-> 0]
  /\ fbCalls = {}
  /\ fbIssued = 0
  /\ now = 0
  /\ last = [op |-> "mount", text |-> "", ok |-> TRUE, n |-> 0,
             result |-> NoResult, rejection |-> NoRejection]

Init ==
  /\ settings \in SavedWithDefaults
  /\ InitSession

\* the Generator mounted over any record the settings page can have saved
InitAnySettings ==
  /\ settings \in PersistableSettings
  /\ InitSession

\* ---- the event of a step (a record of what happened, read by no handler) ----
\* a user event op on a control holding text, accepted (ok) or ignored
Log(op, text, ok) ==
  last' = [op |-> op, text |-> text, ok |-> ok, n |-> 0,
           result |-> NoResult, rejection |-> NoRejection]

\* the transport settles call n of kind op with a body or a rejection
Respond(op, n, result, rejection) ==
  last' = [op |-> op, text |-> "", ok |-> TRUE, n |-> n,
           result |-> result, rejection |-> rejection]

\* variant: a submission that keeps the previous result and its feedback
\* flag
handleSubmitPrompt_keepsResult(prompt) ==
  LET userMessage == Msg("", "user", "text", prompt, FALSE)
      assistantMessage == Msg("error-", "assistant", "text", ConfigErrorMsg,
                              FALSE)
      loadingMessage == Msg("loading-", "assistant", "text",
                            "Generating your Pine Script...", TRUE)
  IN /\ UNCHANGED <<feedbackSubmitted, lastGenerationResult, showDetailForm>>
     /\ IF apiKey = ""
        THEN /\ error' = Some(ConfigErrorMsg)
             /\ messages' = messages \o <<userMessage, assistantMessage>>
             /\ UNCHANGED <<loading, activities, poller, transport>>
        ELSE /\ Events < MaxEvents
             /\ error' = None
             /\ messages' = messages \o <<userMessage, loadingMessage>>
             /\ loading' = TRUE
             /\ activities' = <<>>
             /\ PollingEffect(TRUE)
             /\ genIssued' = genIssued + 1
             /\ genCalls' = genCalls \cup
                  {[n |-> genIssued + 1, lid |-> loadingMessage.id,
                    prompt |-> prompt, apiKey |-> apiKey,
                    temperature |-> orDefault(settings.temperature, 6),
                    maxAttempts |-> orDefault(settings.maxAttempts, 5),
                    pollerRunning |-> intervals # {}]}
             /\ UNCHANGED <<pollsInFlight, fbCalls, fbIssued>>

\* ---- Generator.handleSubmitPrompt, up to its first await ----
\* The setters only queue their updates; apiClient.generateScript is called
\* before the handler yields, and the polling effect runs after the render
\* that follows.  The call records whether an interval was scheduled when
\* it was made (pollerRunning); the step ends after that render.
handleSubmitPrompt(prompt) ==
  LET userMessage == Msg("", "user", "text", prompt, FALSE)
      assistantMessage == Msg("error-", "assistant", "text", ConfigErrorMsg,
                              FALSE)
      loadingMessage == Msg("loading-", "assistant", "text",
                            "Generating your Pine Script...", TRUE)
  IN /\ feedbackSubmitted' = FALSE
     /\ lastGenerationResult' = None
     /\ showDetailForm' = FormStateAfter(None, FALSE, showDetailForm)
     /\ IF apiKey = ""
        THEN /\ error' = Some(ConfigErrorMsg)
             /\ messages' = messages \o <<userMessage, assistantMessage>>
             /\ UNCHANGED <<loading, activities, poller, transport>>
        ELSE /\ Events < MaxEvents
             /\ error' = None
             /\ messages' = messages \o <<userMessage, loadingMessage>>
             /\ loading' = TRUE
             /\ activities' = <<>>
             /\ PollingEffect(TRUE)
             /\ genIssued' = genIssued + 1
             /\ genCalls' = genCalls \cup
                  {[n |-> genIssued + 1, lid |-> loadingMessage.id,
                    prompt |-> prompt, apiKey |-> apiKey,
                    temperature |-> orDefault(settings.temperature, 6),
                    maxAttempts |-> orDefault(settings.maxAttempts, 5),
                    pollerRunning |-> intervals # {}]}
             /\ UNCHANGED <<pollsInFlight, fbCalls, fbIssued>>

\* ---- ChatInput ----
\* the disabled prop Generator passes: disabled={!apiKey}
disabled == apiKey = ""

\* variant: handleSubmit without its !loading test
canSubmit_ignoringLoading(input) == trim(input) # "" /\ ~disabled

\* the condition of ChatInput.handleSubmit
canSubmit(input) == trim(input) # "" /\ ~disabled /\ ~loading

\* ChatInput.handleSubmit with the textarea holding input
handleSubmit(input) ==
  /\ IF canSubmit(input)
     THEN /\ handleSubmitPrompt(input)
          /\ Log("submitPrompt", input, TRUE)
     ELSE /\ Log("submitPrompt", input, FALSE)
          /\ UNCHANGED <<genState, poller, showDetailForm, transport>>
  /\ UNCHANGED <<settings, now>>

\* variant: handleSubmitFeedback without its lastGenerationResult?.code test
handleSubmitFeedback_noGuard(works, reason) ==
  /\ Events < MaxEvents
  /\ fbIssued' = fbIssued + 1
  /\ fbCalls' = fbCalls \cup
       {[n |-> fbIssued + 1,
         code |-> IF lastGenerationResult # None
                     /\ Truthy(lastGenerationResult[1].code)
                  THEN lastGenerationResult[1].code[1] ELSE "",
         works |-> works, reason |-> reason, request |-> genIssued]}

\* ---- Generator.handleSubmitFeedback, up to its await ----
\* a call is tagged with the request whose result it rates (request), the
\* latest one: lastGenerationResult is only set by the latest request
handleSubmitFeedback(works, reason) ==
  IF lastGenerationResult # None /\ Truthy(lastGenerationResult[1].code)
  THEN /\ Events < MaxEvents
       /\ fbIssued' = fbIssued + 1
       /\ fbCalls' = fbCalls \cup
            {[n |-> fbIssued + 1, code |-> lastGenerationResult[1].code[1],
              works |-> works, reason |-> reason,
              request |-> genIssued]}
  ELSE UNCHANGED <<fbCalls, fbIssued>>

\* ---- FeedbackForm ----
\* the two thumbs buttons are rendered while the detail form is hidden
\* and are disabled={loading}
thumbsEnabled ==
  /\ FormShown(lastGenerationResult, feedbackSubmitted)
  /\ ~showDetailForm
  /\ ~loading

handlePositiveFeedback ==
  /\ thumbsEnabled
  /\ handleSubmitFeedback(TRUE, None)
  /\ showDetailForm' = FALSE
  /\ Log("thumbsUp", "", TRUE)
  /\ UNCHANGED <<settings, genState, poller, genCalls, genIssued,
                 pollsInFlight, now>>

handleNegativeFeedback ==
  /\ thumbsEnabled
  /\ showDetailForm' = TRUE
  /\ Log("thumbsDown", "", TRUE)
  /\ UNCHANGED <<settings, genState, poller, transport, now>>

\* the Back button of the detail form
detailBack ==
  /\ FormShown(lastGenerationResult, feedbackSubmitted)
  /\ showDetailForm
  /\ ~loading
  /\ showDetailForm' = FALSE
  /\ Log("back", "", TRUE)
  /\ UNCHANGED <<settings, genState, poller, transport, now>>

\* variant: the submit button without its !reason.trim() test
canSubmitDetail_anyReason(reason) == ~loading

\* the submit button of the detail form is
\* disabled={loading || !reason.trim()} and the textarea is required
canSubmitDetail(reason) == ~loading /\ trim(reason) # ""

\* a submit of the detail form with the textarea holding reason
handleDetailedSubmit(reason) ==
  /\ FormShown(lastGenerationResult, feedbackSubmitted)
  /\ showDetailForm
  /\ IF canSubmitDetail(reason)
     THEN /\ handleSubmitFeedback(FALSE, Some(reason))
          /\ showDetailForm' = FALSE
          /\ Log("detailSubmit", reason, TRUE)
     ELSE /\ Log("detailSubmit", reason, FALSE)
          /\ UNCHANGED <<showDetailForm, fbCalls, fbIssued>>
  /\ UNCHANGED <<settings, genState, poller, genCalls, genIssued,
                 pollsInFlight, now>>

\* ---- Generator.handleSubmitPrompt, after the await ----
\* err instanceof Error ? err.message : fallback
messageOf(rejection, fallback) ==
  IF rejection.isError THEN rejection.message ELSE fallback

\* the success branch: append successMsg, setLastGenerationResult(result)
successBranch(msgs, result) ==
  /\ messages' = msgs \o <<Msg("success-", "assistant", "generated",
                               result.code[1], FALSE)>>
  /\ lastGenerationResult' = Some(result)
  /\ UNCHANGED error

\* variant: a catch block that does not remove the loading message
catchBlock_keepPending(msgs, lid, errorMessage) ==
  /\ error' = Some(errorMessage)
  /\ messages' = msgs \o
                   <<Msg("error-", "assistant", "failed", errorMessage, FALSE)>>
  /\ UNCHANGED lastGenerationResult

\* the catch block: setError, filter the loading message, append errorMsg
catchBlock(msgs, lid, errorMessage) ==
  /\ error' = Some(errorMessage)
  /\ messages' = filterOut(msgs, lid) \o
                   <<Msg("error-", "assistant", "failed", errorMessage, FALSE)>>
  /\ UNCHANGED lastGenerationResult

\* variant: a settle that leaves loading as it is
finallyBlock_keepLoading == UNCHANGED <<loading, poller>>

\* variant: loading is reset but the interval is left scheduled
finallyBlock_leavesInterval ==
  /\ loading' = FALSE
  /\ UNCHANGED poller

\* the finally block: setLoading(false); the polling effect then cleans up
finallyBlock ==
  /\ loading' = FALSE
  /\ PollingEffect(FALSE)

\* variant: a failure that clears the activities
generateResolve_clearsActivities(c, result) ==
  /\ c \in genCalls
  /\ genCalls' = genCalls \ {c}
  /\ activities' = IF result.activities # None THEN result.activities[1]
                   ELSE IF result.success /\ Truthy(result.code)
                        THEN activities ELSE <<>>
  /\ LET msgs1 == filterOut(messages, c.lid)
     IN IF result.success /\ Truthy(result.code)
        THEN successBranch(msgs1, result)
        ELSE catchBlock(msgs1, c.lid,
                        IF Truthy(result.error) THEN result.error[1]
                        ELSE "Failed to generate")
  /\ finallyBlock
  /\ showDetailForm' = FormStateAfter(lastGenerationResult',
                                      feedbackSubmitted, showDetailForm)
  /\ Respond("generate", c.n, result, NoRejection)
  /\ UNCHANGED <<settings, feedbackSubmitted, genIssued, pollsInFlight,
                 fbCalls, fbIssued, now>>

\* variant: a body is taken as a success on result.success alone
generateResolve_successOnly(c, result) ==
  /\ c \in genCalls
  /\ genCalls' = genCalls \ {c}
  /\ activities' = IF result.activities # None THEN result.activities[1]
                   ELSE activities
  /\ LET msgs1 == filterOut(messages, c.lid)
     IN IF result.success
        THEN /\ messages' = msgs1 \o
                  <<Msg("success-", "assistant", "generated",
                        IF result.code # None THEN result.code[1] ELSE "",
                        FALSE)>>
             /\ lastGenerationResult' = Some(result)
             /\ UNCHANGED error
        ELSE catchBlock(msgs1, c.lid,
                        IF Truthy(result.error) THEN result.error[1]
                        ELSE "Failed to generate")
  /\ finallyBlock
  /\ showDetailForm' = FormStateAfter(lastGenerationResult',
                                      feedbackSubmitted, showDetailForm)
  /\ Respond("generate", c.n, result, NoRejection)
  /\ UNCHANGED <<settings, feedbackSubmitted, genIssued, pollsInFlight,
                 fbCalls, fbIssued, now>>

\* api.post('/generate') answers call c with a body
generateResolve(c, result) ==
  /\ c \in genCalls
  /\ genCalls' = genCalls \ {c}
  /\ activities' = IF result.activities # None THEN result.activities[1]
                   ELSE activities
  /\ LET msgs1 == filterOut(messages, c.lid)
     IN IF result.success /\ Truthy(result.code)
        THEN successBranch(msgs1, result)
        ELSE catchBlock(msgs1, c.lid,
                        IF Truthy(result.error) THEN result.error[1]
                        ELSE "Failed to generate")
  /\ finallyBlock
  /\ showDetailForm' = FormStateAfter(lastGenerationResult',
                                      feedbackSubmitted, showDetailForm)
  /\ Respond("generate", c.n, result, NoRejection)
  /\ UNCHANGED <<settings, feedbackSubmitted, genIssued, pollsInFlight,
                 fbCalls, fbIssued, now>>

\* api.post('/generate') rejects call c (network failure, non-2xx, the
\* 300000 ms timeout)
generateReject(c, rejection) ==
  /\ c \in genCalls
  /\ genCalls' = genCalls \ {c}
  /\ catchBlock(messages, c.lid, messageOf(rejection, "An error occurred"))
  /\ finallyBlock
  /\ showDetailForm' = FormStateAfter(lastGenerationResult',
                                      feedbackSubmitted, showDetailForm)
  /\ Respond("generateReject", c.n, NoResult, rejection)
  /\ UNCHANGED <<settings, activities, feedbackSubmitted, genIssued,
                 pollsInFlight, fbCalls, fbIssued, now>>

\* ---- the poller ----
\* interval i fires: pollActivities calls apiClient.getActivities()
pollActivities(i) ==
  /\ i \in intervals
  /\ Events < MaxEvents
  /\ pollsInFlight' = [pollsInFlight EXCEPT ![i] = @ + 1]
  /\ Log("interval", "", TRUE)
  /\ UNCHANGED <<settings, genState, poller, showDetailForm,
                 genCalls, genIssued, fbCalls, fbIssued, now>>

\* variant: the fetched snapshot appended to the previous copy
pollResolve_merges(i, snapshot) ==
  /\ pollsInFlight[i] > 0
  /\ pollsInFlight' = [pollsInFlight EXCEPT ![i] = @ - 1]
  /\ activities' = activities \o snapshot
  /\ Respond("activities", i,
             [NoResult EXCEPT !.activities = Some(snapshot)], NoRejection)
  /\ UNCHANGED <<settings, messages, loading, lastGenerationResult,
                 feedbackSubmitted, error, poller, showDetailForm, genCalls,
                 genIssued, fbCalls, fbIssued, now>>

\* a fetch issued by interval i is answered: setActivities(response.activities)
pollResolve(i, snapshot) ==
  /\ pollsInFlight[i] > 0
  /\ pollsInFlight' = [pollsInFlight EXCEPT ![i] = @ - 1]
  /\ activities' = snapshot
  /\ Respond("activities", i,
             [NoResult EXCEPT !.activities = Some(snapshot)], NoRejection)
  /\ UNCHANGED <<settings, messages, loading, lastGenerationResult,
                 feedbackSubmitted, error, poller, showDetailForm, genCalls,
                 genIssued, fbCalls, fbIssued, now>>

\* variant: a failed fetch shown to the user as an error
pollReject_surfacesError(i, rejection) ==
  /\ pollsInFlight[i] > 0
  /\ pollsInFlight' = [pollsInFlight EXCEPT ![i] = @ - 1]
  /\ error' = Some(messageOf(rejection, "Failed to fetch activities"))
  /\ Respond("activitiesReject", i, NoResult, rejection)
  /\ UNCHANGED <<settings, messages, loading, lastGenerationResult,
                 feedbackSubmitted, activities, poller, showDetailForm,
                 genCalls, genIssued, fbCalls, fbIssued, now>>

\* a fetch issued by interval i fails: console.error only
pollReject(i, rejection) ==
  /\ pollsInFlight[i] > 0
  /\ pollsInFlight' = [pollsInFlight EXCEPT ![i] = @ - 1]
  /\ Respond("activitiesReject", i, NoResult, rejection)
  /\ UNCHANGED <<settings, genState, poller, showDetailForm,
                 genCalls, genIssued, fbCalls, fbIssued, now>>

\* ---- Generator.handleSubmitFeedback, after the await ----
\* the acknowledgement: 'Thanks for the feedback!' or 'Thank you for
\* reporting this.'
feedbackMsg(works) ==
  Msg("feedback-", "assistant", IF works THEN "thanks" ELSE "reported", "",
      FALSE)

\* variant: an acknowledgement that is not appended
feedbackThen_noAck(works) ==
  /\ feedbackSubmitted' = TRUE
  /\ UNCHANGED messages

\* variant: the acknowledgement put in front of the conversation
feedbackThen_prepend(works) ==
  /\ feedbackSubmitted' = TRUE
  /\ messages' = <<feedbackMsg(works)>> \o messages

\* setFeedbackSubmitted(true) and the append of feedbackMsg
feedbackThen(works) ==
  /\ feedbackSubmitted' = TRUE
  /\ messages' = messages \o <<feedbackMsg(works)>>

\* variant: a catch block that marks the feedback as submitted
feedbackCatch_marksSubmitted(rejection) ==
  /\ error' = Some(messageOf(rejection, "Failed to submit feedback"))
  /\ feedbackSubmitted' = TRUE
  /\ UNCHANGED messages

\* the catch block of handleSubmitFeedback
feedbackCatch(rejection) ==
  /\ error' = Some(messageOf(rejection, "Failed to submit feedback"))
  /\ UNCHANGED <<feedbackSubmitted, messages>>

feedbackResolve(c) ==
  /\ c \in fbCalls
  /\ fbCalls' = fbCalls \ {c}
  /\ feedbackThen(c.works)
  /\ showDetailForm' = FormStateAfter(lastGenerationResult, TRUE,
                                      showDetailForm)
  /\ Respond("feedback", c.n, NoResult, NoRejection)
  /\ UNCHANGED <<settings, loading, lastGenerationResult, error, activities,
                 poller, genCalls, genIssued, pollsInFlight, fbIssued, now>>

feedbackReject(c, rejection) ==
  /\ c \in fbCalls
  /\ fbCalls' = fbCalls \ {c}
  /\ feedbackCatch(rejection)
  /\ Respond("feedbackReject", c.n, NoResult, rejection)
  /\ UNCHANGED <<settings, loading, lastGenerationResult,
                 activities, poller, showDetailForm,
                 genCalls, genIssued, pollsInFlight, fbIssued, now>>

\* ---- the clock behind Date.now() advances ----
Tick ==
  /\ Events < MaxEvents
  /\ now' = now + 1
  /\ Log("clock", "", TRUE)
  /\ UNCHANGED <<settings, genState, poller, showDetailForm,
                 transport>>

Next ==
  \/ \E input \in Inputs : handleSubmit(input)
  \/ handlePositiveFeedback
  \/ handleNegativeFeedback
  \/ detailBack
  \/ \E reason \in Inputs : handleDetailedSubmit(reason)
  \/ \E c \in genCalls, result \in GenResults : generateResolve(c, result)
  \/ \E c \in genCalls, rejection \in Rejections : generateReject(c, rejection)
  \/ \E i \in 1..MaxEvents : pollActivities(i)
  \/ \E i \in 1..MaxEvents, snapshot \in Snapshots : pollResolve(i, snapshot)
  \/ \E i \in 1..MaxEvents, rejection \in Rejections : pollReject(i, rejection)
  \/ \E c \in fbCalls : feedbackResolve(c)
  \/ \E c \in fbCalls, rejection \in Rejections : feedbackReject(c, rejection)
  \/ Tick

Spec == Init /\ [][Next]_vars

\* the transport answers every generate call (axios gives up after its
\* timeout of 300000 ms), so a call in flight is eventually settled
GenerateSettles ==
  \E c \in genCalls :
    \/ \E result \in GenResults : generateResolve(c, result)
    \/ \E rejection \in Rejections : generateReject(c, rejection)

FairSpec == Spec /\ WF_vars(GenerateSettles)

\* ---- handleSubmitFeedback called by a caller other than FeedbackForm ----
\* the handler is invoked whatever the session state is
invokeSubmitFeedback(works, reason) ==
  /\ handleSubmitFeedback(works, reason)
  /\ Log("submitFeedback", "", TRUE)
  /\ UNCHANGED <<settings, genState, poller, showDetailForm, genCalls,
                 genIssued, pollsInFlight, now>>

SettingsSpec == InitAnySettings /\ [][Next]_vars

DirectNext ==
  \/ Next
  \/ \E works \in BOOLEAN : invokeSubmitFeedback(works, None)

DirectSpec == Init /\ [][DirectNext]_vars

TypeOK ==
  /\ loading \in BOOLEAN
  /\ feedbackSubmitted \in BOOLEAN
  /\ showDetailForm \in BOOLEAN
  /\ Len(lastGenerationResult) <= 1
  /\ Len(error) <= 1
  /\ genIssued \in 0..MaxEvents
  /\ fbIssued \in 0..MaxEvents
  /\ now \in 0..MaxEvents
  /\ intervals \subseteq 1..MaxEvents
  /\ Events <= MaxEvents

\* ---- helpers of the properties ----
\* positions of the pending (loading) turns of a conversation
Pending(msgs) == {i \in 1..Len(msgs) : msgs[i].loading}

\* the conversation without its pending turns
RECURSIVE Settled(_)
Settled(msgs) ==
  IF msgs = <<>> THEN <<>>
  ELSE IF Head(msgs).loading THEN Settled(Tail(msgs))
       ELSE <<Head(msgs)>> \o Settled(Tail(msgs))

\* s is an initial part of t
IsPrefix(s, t) == Len(s) <= Len(t) /\ SubSeq(t, 1, Len(s)) = s

\* the step is a user event / a transport response of kind op
Did(op) == last'.op = op

\* ---- C1 ----
\* C1: in every reachable state loading is true iff exactly one generate
\* call is outstanding, and there are never two outstanding generate calls.
C1_BusyIffOneOutstanding ==
  /\ Cardinality(genCalls) <= 1
  /\ loading <=> Cardinality(genCalls) = 1

\* a second request is outstanding after the first one has settled
C1_Witness ==
  /\ loading
  /\ Cardinality(genCalls) = 1
  /\ genIssued = 2

\* ---- C2 ----
\* C2: a prompt submission attempted while loading is true is ignored: no
\* generate call is issued or kept for later, and messages,
\* lastGenerationResult, activities, error and feedbackSubmitted (and the
\* poller) stay as they are.
C2_SubmitWhileBusyIgnored ==
  [][(loading /\ Did("submitPrompt")) =>
       /\ ~last'.ok
       /\ UNCHANGED <<genState, poller, transport, showDetailForm>>]_vars

\* a non-blank prompt was submitted while a request was outstanding
C2_Witness ==
  /\ loading
  /\ last.op = "submitPrompt"
  /\ trim(last.text) # ""
  /\ ~last.ok

\* ---- C3 ----
\* C3: submitting a non-blank prompt P while the api key is empty issues no
\* transport call, leaves loading false and the poller stopped, appends
\* exactly two turns (the user turn for P, then one assistant turn with the
\* configuration-error message), sets error to that message and leaves
\* lastGenerationResult unset.
C3_EmptyKeySubmit ==
  [][(apiKey = "" /\ Did("submitPrompt") /\ trim(last'.text) # "") =>
       /\ UNCHANGED <<transport, poller>>
       /\ ~loading'
       /\ Len(messages') = Len(messages) + 2
       /\ SubSeq(messages', 1, Len(messages)) = messages
       /\ messages'[Len(messages) + 1].role = "user"
       /\ messages'[Len(messages) + 1].content.arg = last'.text
       /\ messages'[Len(messages) + 2].role = "assistant"
       /\ messages'[Len(messages) + 2].content.arg = ConfigErrorMsg
       /\ error' = Some(ConfigErrorMsg)
       /\ lastGenerationResult' = None]_vars

\* ---- C4 ----
\* C4: whenever no generate call is outstanding the poller is stopped, and
\* the response of a fetch whose interval has been cleared does not change
\* activities, whenever it arrives.
C4_NoWriteAfterStop ==
  /\ [](~loading => intervals = {})
  /\ [][\A i \in 1..MaxEvents :
          (i \notin intervals /\ pollsInFlight'[i] < pollsInFlight[i]) =>
             activities' = activities]_vars

\* ---- C5 ----
\* C5: when a generate call resolves with success:true and a code, then
\* right after it lastGenerationResult.code is the returned code,
\* feedbackSubmitted is false, the pending turn of the request is gone, and
\* exactly one assistant turn embedding the code has been appended.
C5_SuccessSettle ==
  [][(Did("generate") /\ last'.result.success /\ Truthy(last'.result.code)) =>
       /\ lastGenerationResult' # None
       /\ lastGenerationResult'[1].code = last'.result.code
       /\ ~feedbackSubmitted'
       /\ Cardinality(Pending(messages)) = 1
       /\ Pending(messages') = {}
       /\ Len(messages') = Len(messages)
       /\ SubSeq(messages', 1, Len(messages) - 1) = Settled(messages)
       /\ messages'[Len(messages')].role = "assistant"
       /\ messages'[Len(messages')].content =
            [tpl |-> "generated", arg |-> last'.result.code[1]]]_vars

\* ---- C6 ----
\* the failure message of the response delivered by the step
FailureMessage(ev) ==
  IF ev.op = "generateReject" THEN ev.rejection.message
  ELSE IF Truthy(ev.result.error) THEN ev.result.error[1]
       ELSE "Failed to generate"

\* C6: when generate resolves with success:false or rejects, the pending turn
\* is removed, exactly one error turn carrying the failure message is
\* appended, error is set to that message, the poller is stopped, loading
\* becomes false and lastGenerationResult stays unset -- the same in both
\* cases.
C6_FailureSettle ==
  [][(Did("generateReject") \/ (Did("generate") /\ ~last'.result.success)) =>
       /\ Cardinality(Pending(messages)) = 1
       /\ Pending(messages') = {}
       /\ Len(messages') = Len(messages)
       /\ SubSeq(messages', 1, Len(messages) - 1) = Settled(messages)
       /\ messages'[Len(messages')].role = "assistant"
       /\ messages'[Len(messages')].content =
            [tpl |-> "failed", arg |-> FailureMessage(last')]
       /\ error' = Some(FailureMessage(last'))
       /\ intervals' = {}
       /\ ~loading'
       /\ lastGenerationResult = None
       /\ lastGenerationResult' = None]_vars

\* a rejected request follows one that was answered with success:false
C6_Witness ==
  /\ last.op = "generateReject"
  /\ ~loading
  /\ error = Some("Network Error")
  /\ \E i \in 1..Len(messages) :
       messages[i].content = [tpl |-> "failed", arg |-> "syntax error"]

\* ---- C7 ----
\* C7: whenever loading is true it is eventually false again, given that
\* the transport eventually answers or rejects every generate call.
C7_BusyEventuallyEnds == loading ~> ~loading

\* a request set loading and its settlement reset it
C7_Witness ==
  /\ ~loading
  /\ genIssued >= 1
  /\ last.op \in {"generate", "generateReject"}

C9_FeedbackSuccess ==
  [][Did("feedback") =>
       /\ feedbackSubmitted'
       /\ Len(messages') = Len(messages) + 1
       /\ SubSeq(messages', 1, Len(messages)) = messages
       /\ messages'[Len(messages')].role = "assistant"
       /\ messages'[Len(messages')].content.tpl \in {"thanks", "reported"}
       /\ UNCHANGED <<lastGenerationResult, error, activities, loading>>]_vars

\* the acknowledgement of a feedback is the last turn
C9_Witness ==
  /\ last.op = "feedback"
  /\ feedbackSubmitted
  /\ lastGenerationResult # None
  /\ messages[Len(messages)].content.tpl = "thanks"

\* ---- C10 ----
\* C10: when a feedback call fails, error is set to the failure message,
\* feedbackSubmitted and the conversation stay as they are, and the feedback
\* form stays as it was, so the feedback can be given again.
C10_FeedbackFailure ==
  [][Did("feedbackReject") =>
       /\ error' = Some(last'.rejection.message)
       /\ UNCHANGED <<feedbackSubmitted, messages, lastGenerationResult,
                      showDetailForm, loading>>]_vars

\* after a failed feedback the thumbs of the same result can be used again
C10_Witness ==
  /\ last.op = "feedbackReject"
  /\ error = Some("Network Error")
  /\ thumbsEnabled

\* ---- C11 ----
\* C11: handleSubmitFeedback invoked while lastGenerationResult is unset or
\* carries no code is a no-op: no transport call is made and messages,
\* feedbackSubmitted, error and lastGenerationResult (and the rest of the
\* session) stay as they are.
C11_FeedbackWithoutResultNoop ==
  [][(Did("submitFeedback")
      /\ (lastGenerationResult = None
          \/ ~Truthy(lastGenerationResult[1].code))) =>
       UNCHANGED <<transport, genState, poller, showDetailForm>>]_vars

\* the handler was invoked after a failed generation, with no result stored
C11_Witness ==
  /\ last.op = "submitFeedback"
  /\ lastGenerationResult = None
  /\ error # None
  /\ fbIssued = 0

\* ---- C12 ----
\* C12: the poller never has two getActivities calls in flight at the same
\* time: an interval whose fetch is still outstanding issues no second one.
C12_NoOverlappingFetches ==
  \A i \in 1..MaxEvents : pollsInFlight[i] <= 1

\* ---- C13 ----
\* C13: at most one interval is scheduled at any time, across any sequence
\* of requests, and it is the one activityPollingRef holds; a step that
\* leaves loading as it is neither creates nor clears an interval.
C13_OnePollingLoop ==
  /\ [](/\ Cardinality(intervals) <= 1
        /\ \A i \in intervals : activityPollingRef = Some(i))
  /\ [][loading' = loading => UNCHANGED poller]_vars

\* the interval of a second request is scheduled, the first one's is gone
C13_Witness ==
  /\ intervals = {2}
  /\ activityPollingRef = Some(2)
  /\ loading

\* ---- C14 ----
\* C14: getActivities ticks are issued while, and only while, a generation
\* is outstanding: an interval is scheduled exactly while loading is true
\* (so ticks keep coming due), and every getActivities call is issued by a
\* tick of the scheduled interval while loading is true.
C14_TicksOnlyWhileBusy ==
  /\ [](loading <=> intervals # {})
  /\ [][\A i \in 1..MaxEvents :
          pollsInFlight'[i] > pollsInFlight[i] =>
            (loading /\ i \in intervals /\ Did("interval"))]_vars

\* a tick of the second request's interval was issued
C14_Witness ==
  /\ last.op = "interval"
  /\ loading
  /\ pollsInFlight[2] = 1

\* ---- C15 ----
\* C15: a getActivities call that fails is swallowed: the interval stays
\* scheduled as it was (so later ticks are still issued while loading), and
\* loading, error, activities, lastGenerationResult and messages stay as
\* they are.
C15_PollFailureSwallowed ==
  [][Did("activitiesReject") =>
       /\ UNCHANGED <<loading, error, activities, lastGenerationResult,
                      messages, feedbackSubmitted, poller>>
       /\ loading => intervals' # {}]_vars

\* a fetch failed during a request, after an earlier one had delivered a
\* snapshot
C15_Witness ==
  /\ last.op = "activitiesReject"
  /\ loading
  /\ intervals # {}
  /\ activities = <<"a1">>

\* ---- C16 ----
\* C16: the conversation holds at most one pending turn, and holds one iff
\* loading is true; the pending turn of a request is removed by the step
\* that settles the request and by no other, and that step puts exactly one
\* terminal turn in its place.
C16_PendingIffBusy ==
  /\ [](/\ Cardinality(Pending(messages)) <= 1
        /\ (Pending(messages) # {}) <=> loading)
  /\ [][(Did("generate") \/ Did("generateReject")) =>
          /\ Cardinality(Pending(messages)) = 1
          /\ Pending(messages') = {}
          /\ Len(messages') = Len(messages)
          /\ SubSeq(messages', 1, Len(messages) - 1) = Settled(messages)
          /\ messages'[Len(messages')].content.tpl \in {"generated", "failed"}]_vars
  /\ [][Cardinality(Pending(messages')) < Cardinality(Pending(messages)) =>
          (Did("generate") \/ Did("generateReject"))]_vars

\* the pending turn of a second request follows the terminal turn of the
\* first
C16_Witness ==
  /\ loading
  /\ Pending(messages) = {Len(messages)}
  /\ \E i \in 1..Len(messages) : messages[i].content.tpl = "generated"

\* ---- C17 ----
\* C17: the conversation is append-only and insertion-ordered: every step
\* keeps the turns it finds, in their order, except that it may remove the
\* pending turn, and puts the turns it adds at the end; a turn that is not
\* pending is never removed, modified or moved.
C17_AppendOnly ==
  [][/\ \/ IsPrefix(messages, messages')
        \/ IsPrefix(Settled(messages), messages')
     /\ IsPrefix(Settled(messages), Settled(messages'))]_vars

\* an acknowledgement arrived during the second request: it stands between
\* the user turn and the terminal turn of that request
C17_Witness ==
  /\ Len(messages) >= 4
  /\ messages[Len(messages)].content.tpl \in {"generated", "failed"}
  /\ messages[Len(messages) - 1].content.tpl = "thanks"
  /\ messages[Len(messages) - 2].role = "user"

\* ---- C18 ----
\* C18: every accepted prompt submission, from any state, clears error,
\* sets feedbackSubmitted to false, clears lastGenerationResult and appends
\* a user turn whose content is the prompt.
C18_SubmitResets ==
  [][(Did("submitPrompt") /\ last'.ok) =>
       /\ error' = None
       /\ ~feedbackSubmitted'
       /\ lastGenerationResult' = None
       /\ Len(messages') > Len(messages)
       /\ IsPrefix(messages, messages')
       /\ messages'[Len(messages) + 1].role = "user"
       /\ messages'[Len(messages) + 1].content =
            [tpl |-> "text", arg |-> last'.text]
       /\ ~messages'[Len(messages) + 1].loading]_vars

\* a prompt was accepted after a generation had succeeded and its feedback
\* had been acknowledged
C18_Witness ==
  /\ last.op = "submitPrompt"
  /\ last.ok
  /\ lastGenerationResult = None
  /\ ~feedbackSubmitted
  /\ Len(messages) >= 3
  /\ messages[Len(messages) - 2].content.tpl = "thanks"

\* ---- C19 ----
\* the step delivers a generate body with success:false and an error
FailedWithError == Did("generate") /\ ~last'.result.success
                   /\ Truthy(last'.result.error)

\* what the claim says of the step that delivers the failure
FailureLeaves(acts) ==
  /\ activities' = acts
  /\ messages'[Len(messages')].content =
       [tpl |-> "failed", arg |-> last'.result.error[1]]
  /\ ~loading'
  /\ lastGenerationResult' = None

\* C19 as stated: when generate resolves with success:false and an error,
\* activities are the last snapshot received from the poller before the
\* resolution (the failure neither clears nor replaces them), the
\* conversation ends with an error turn, loading is false and
\* lastGenerationResult is unset.
C19_FailureKeepsActivities_Original ==
  [][FailedWithError => FailureLeaves(activities)]_vars

\* C19 as amended: the same for a failure body that carries no activities
\* of its own; during a request every received snapshot replaces
\* activities and nothing but a snapshot or the generate response changes
\* them, so what the failure leaves is the last snapshot received.
C19_FailureKeepsActivities ==
  /\ [][(FailedWithError /\ last'.result.activities = None) =>
          FailureLeaves(activities)]_vars
  /\ [][Did("activities") =>
          activities' = last'.result.activities[1]]_vars
  /\ [][(loading /\ activities' # activities) =>
          (Did("activities") \/ Did("generate"))]_vars

\* the failure left the snapshot the poller had delivered
C19_Witness ==
  /\ last.op = "generate"
  /\ ~last.result.success
  /\ last.result.activities = None
  /\ error = Some("syntax error")
  /\ activities = <<"a1">>
  /\ ~loading
  /\ lastGenerationResult = None

\* ---- C20 ----
\* C20: a submission with a non-empty key appends the pending turn, sets
\* loading, clears activities, starts the poller and only then issues the
\* generate call: the poller is already running at the moment
\* generateScript is invoked.
C20_PollerStartedBeforeGenerate ==
  [][(Did("submitPrompt") /\ last'.ok /\ apiKey # "") =>
       /\ Pending(messages') = {Len(messages')}
       /\ loading'
       /\ activities' = <<>>
       /\ intervals' # {}
       /\ \E c \in genCalls' :
            /\ genCalls' = genCalls \cup {c}
            /\ c \notin genCalls
            /\ c.pollerRunning]_vars

\* ---- C21 ----
\* C21: after a successful generate, lastGenerationResult carries an
\* activity log: the one returned with the result if the result carried
\* one, otherwise the latest polled activities.
C21_ResultCarriesActivityLog ==
  [][(Did("generate") /\ last'.result.success
      /\ Truthy(last'.result.code)) =>
       /\ lastGenerationResult' # None
       /\ lastGenerationResult'[1].activities =
            IF last'.result.activities # None
            THEN last'.result.activities
            ELSE Some(activities)]_vars

\* ---- C22 ----
\* C22: a getActivities response replaces activities with the fetched
\* snapshot (no merge with the previous copy) and changes nothing else; no
\* step of the poller changes loading, lastGenerationResult, error,
\* feedbackSubmitted or messages, so a response that arrives after the
\* generate response alters neither loading nor lastGenerationResult.
C22_TickReplacesActivitiesOnly ==
  /\ [][Did("activities") =>
          /\ activities' = last'.result.activities[1]
          /\ UNCHANGED <<messages, loading, lastGenerationResult,
                         feedbackSubmitted, error, poller, showDetailForm,
                         genCalls, genIssued, fbCalls, fbIssued>>]_vars
  /\ [][(Did("interval") \/ Did("activitiesReject")) =>
          UNCHANGED <<genState, poller, showDetailForm, genCalls, genIssued,
                      fbCalls, fbIssued>>]_vars

\* an empty snapshot arrived after the generate response had stored a
\* result and its activities
C22_Witness ==
  /\ last.op = "activities"
  /\ ~loading
  /\ lastGenerationResult # None
  /\ lastGenerationResult[1].activities = Some(<<"a1", "a2">>)
  /\ activities = <<>>

\* ---- C23 ----
\* C23: lastGenerationResult is either unset or a result with success true
\* and a code; it is unset whenever loading is true; it changes only by
\* being cleared when a prompt is accepted and by being set to the body of
\* a generate response, which is then the only result kept.
C23_ResultShape ==
  /\ [](/\ lastGenerationResult # None =>
             (/\ Len(lastGenerationResult) = 1
              /\ lastGenerationResult[1].success
              /\ Truthy(lastGenerationResult[1].code))
        /\ loading => lastGenerationResult = None)
  /\ [][lastGenerationResult' # lastGenerationResult =>
          \/ Did("submitPrompt") /\ last'.ok /\ lastGenerationResult' = None
          \/ /\ Did("generate")
             /\ lastGenerationResult = None
             /\ lastGenerationResult' = Some(last'.result)]_vars

\* the result of a second generation is stored after the first one's had
\* been cleared
C23_Witness ==
  /\ lastGenerationResult # None
  /\ ~loading
  /\ Cardinality({i \in 1..Len(messages) :
                    messages[i].content.tpl = "generated"}) = 2

\* ---- C24 ----
\* C24: a generate response with success:true but no code is handled as a
\* failure: the pending turn is removed, an error turn is appended (with
\* the response's error text, or 'Failed to generate' when it has none),
\* error is set to that text, loading becomes false and
\* lastGenerationResult stays unset.
C24_SuccessWithoutCodeFails ==
  [][(Did("generate") /\ last'.result.success
      /\ ~Truthy(last'.result.code)) =>
       /\ Cardinality(Pending(messages)) = 1
       /\ Pending(messages') = {}
       /\ SubSeq(messages', 1, Len(messages') - 1) = Settled(messages)
       /\ messages'[Len(messages')].content =
            [tpl |-> "failed", arg |-> FailureMessage(last')]
       /\ error' = Some(FailureMessage(last'))
       /\ ~loading'
       /\ lastGenerationResult' = None]_vars

\* a body with success:true and no code, and no error text either, was
\* turned into the generic failure
C24_Witness ==
  /\ last.op = "generate"
  /\ last.result.success
  /\ last.result.code = None
  /\ error = Some("Failed to generate")
  /\ messages[Len(messages)].content.tpl = "failed"
  /\ ~loading

\* ---- C25 ----
\* C25: every generate call carries a non-empty prompt, a non-empty api
\* key, a maxAttempts within 1..15 and a temperature within 0.1..1.0 (1..10
\* tenths), whatever record the settings page has saved.
C25_GenerateArgsInRange ==
  \A c \in genCalls :
    /\ c.prompt # ""
    /\ c.apiKey # ""
    /\ c.maxAttempts \in 1..15
    /\ c.temperature \in 1..10

\* ---- C26 ----
\* C26: with an empty api key, a non-blank prompt submitted through the
\* chat input reaches handleSubmitPrompt and leaves the conversation ending
\* with the user turn and the configuration-error assistant turn.
C26_ConfigErrorReachable ==
  [][(apiKey = "" /\ Did("submitPrompt") /\ trim(last'.text) # "") =>
       /\ last'.ok
       /\ Len(messages') >= 2
       /\ messages'[Len(messages') - 1].role = "user"
       /\ messages'[Len(messages')].content =
            [tpl |-> "text", arg |-> ConfigErrorMsg]]_vars

\* ---- C27 ----
\* C27: feedbackSubmitted is true only while a lastGenerationResult is
\* stored, the one whose feedback call succeeded; a feedback response never
\* takes effect once a newer prompt has been submitted: it neither marks
\* the newer request as rated nor appends its acknowledgement to the newer
\* exchange.
C27_FeedbackBelongsToResult ==
  /\ [](feedbackSubmitted => lastGenerationResult # None)
  /\ [][(Did("feedback") /\ (feedbackSubmitted' \/ messages' # messages)) =>
          (lastGenerationResult # None /\ ~loading)]_vars

\* ---- C28 ----
\* C28: for each stored result at most one feedback call is recorded and
\* at most one acknowledgement turn is appended: while a feedback call for
\* a result is in flight, no second call is issued for the same result.
C28_OneFeedbackPerResult ==
  /\ [](Cardinality({i \in 1..Len(messages) :
                       messages[i].content.tpl \in {"thanks", "reported"}})
          <= Cardinality({i \in 1..Len(messages) :
                           messages[i].content.tpl = "generated"}))
  /\ [][fbIssued' > fbIssued =>
          ~\E c \in fbCalls : c.request = genIssued]_vars

\* ---- C29 ----
\* C29: the turns of the conversation have pairwise distinct ids at any
\* time, also when several turns are created within the same reading of the
\* clock.
C29_DistinctIds ==
  \A i, j \in 1..Len(messages) :
    i # j => messages[i].id # messages[j].id

====
